---- MODULE Spec2Model ----
(***************************************************************************)
(* Verification model of the call-QA backend:                              *)
(*   - the QA rubric (qa_models.py) and the QA response normalizer         *)
(*     (qa_evaluator.py), explored by the specification SpecQA;            *)
(*   - the bulk upload orchestrator and the per-file pipeline (main.py,    *)
(*     file_processor.py, database.py), explored by the specification Spec.*)
(***************************************************************************)
EXTENDS Integers, Sequences, FiniteSets, TLC

(***************************************************************************)
(* Bounds of the exploration.                                              *)
(***************************************************************************)
\* largest score the upstream model may put in a parameter
MaxScoreVal == 11
\* largest load of a bulk submission of several files: the number of its
\* files plus the number of its faults (uploads of the wrong type, and
\* external calls that fail)
MaxLoad == 5
\* largest number of files in one bulk submission
MaxFiles == MaxLoad - 1
\* largest number of tokens of an LLM text
MaxTextLen == 3

(***************************************************************************)
(* The rubric: qa_models.py                                                *)
(***************************************************************************)
Sections ==
  <<"greeting", "information", "hold_procedure", "quality_check",
    "unsure_situation", "closing_script", "sound_quality", "record_handling">>

SectionSet == {Sections[i] : i \in 1..Len(Sections)}

\* the fields of each section model, in declaration order
SectionParams(s) ==
  CASE s = "greeting"         -> <<"greet_protocol", "offer_help">>
    [] s = "information"      -> <<"confirm_info", "confirm_location", "confirm_modality",
                                   "complete_details", "info_within_1min">>
    [] s = "hold_procedure"   -> <<"proper_hold_script", "extend_hold_disconnect",
                                   "reconnect_after_60s">>
    [] s = "quality_check"    -> <<"no_interrupt", "attentive", "no_jargon", "no_repetition",
                                   "polite_courteous", "tone_speed">>
    [] s = "unsure_situation" -> <<"assure_callback">>
    [] s = "closing_script"   -> <<"ask_further_help", "follow_closing", "accurate_info">>
    [] s = "sound_quality"    -> <<"clear_confident">>
    [] s = "record_handling"  -> <<"accurate_record", "proper_disposition", "spell_check">>

ParamsOf(s) == {SectionParams(s)[i] : i \in 1..Len(SectionParams(s))}

Params == UNION {ParamsOf(s) : s \in SectionSet}

\* the section each parameter belongs to
ParamSection == [p \in Params |-> CHOOSE s \in SectionSet : p \in ParamsOf(s)]

SectionOf(p) == ParamSection[p]

\* validators that check a range in place of the listed scores
LegalScoresRange(p) ==
  IF p \in {"accurate_record", "proper_disposition", "spell_check"} THEN 0..10 ELSE 0..5

\* validators that let 0 through for every parameter
LegalScoresAllowZero(p) ==
  {0} \cup (CASE p \in {"polite_courteous", "clear_confident"} -> {1, 3, 4}
            [] p = "tone_speed" -> {1, 3, 5}
            [] p \in {"accurate_record", "proper_disposition", "spell_check"} -> 0..10
            [] p = "greet_protocol" -> {1, 3, 4}
            [] p \in {"confirm_info", "attentive"} -> {1, 3}
            [] p = "confirm_modality" -> {2, 4}
            [] p = "no_repetition" -> {1, 2}
            [] p = "assure_callback" -> {3, 5}
            [] p \in {"ask_further_help", "follow_closing"} -> {3}
            [] p \in {"offer_help", "complete_details", "info_within_1min",
                      "no_interrupt", "no_jargon"} -> {2}
            [] OTHER -> {4})

\* the per-field validators: the set of scores each one lets through
LegalScores(p) ==
  CASE p = "greet_protocol"         -> {0, 1, 3, 4}
    [] p = "offer_help"             -> {0, 2}
    [] p = "confirm_info"           -> {0, 1, 3}
    [] p = "confirm_location"       -> {0, 4}
    [] p = "confirm_modality"       -> {0, 2, 4}
    [] p = "complete_details"       -> {0, 2}
    [] p = "info_within_1min"       -> {0, 2}
    [] p = "proper_hold_script"     -> {0, 4}
    [] p = "extend_hold_disconnect" -> {0, 4}
    [] p = "reconnect_after_60s"    -> {0, 4}
    [] p = "no_interrupt"           -> {0, 2}
    [] p = "attentive"              -> {0, 1, 3}
    [] p = "no_jargon"              -> {0, 2}
    [] p = "no_repetition"          -> {0, 1, 2}
    [] p = "polite_courteous"       -> {1, 3, 4}
    [] p = "tone_speed"             -> {1, 3, 5}
    [] p = "assure_callback"        -> {0, 3, 5}
    [] p = "ask_further_help"       -> {0, 3}
    [] p = "follow_closing"         -> {0, 3}
    [] p = "accurate_info"          -> {0, 4}
    [] p = "clear_confident"        -> {1, 3, 4}
    [] p = "accurate_record"        -> 0..10
    [] p = "proper_disposition"     -> 0..10
    [] p = "spell_check"            -> 0..10

RECURSIVE SumOver(_, _)
SumOver(f, S) ==
  IF S = {} THEN 0
  ELSE LET p == CHOOSE x \in S : TRUE IN f[p] + SumOver(f, S \ {p})

(***************************************************************************)
(* A raw mapping (the object decoded from the LLM text, or the keyword     *)
(* arguments of QAEvaluation) is                                           *)
(*   [sections  : the section keys present,                                *)
(*    scores    : a function from the parameters that carry a score to     *)
(*                that score (only parameters of present sections),        *)
(*    has_total : whether the key total_score is present,                  *)
(*    total     : its value when present, 0 otherwise]                     *)
(***************************************************************************)
HasScore(raw, p) == SectionOf(p) \in raw.sections /\ p \in DOMAIN raw.scores

\* the fields of section s that fail validation (the section itself when the
\* key is absent): a section model validates iff each of its fields is
\* present and passes its validator
SectionErrors(raw, s) ==
  IF s \notin raw.sections THEN {s}
  ELSE {p \in ParamsOf(s) : ~HasScore(raw, p) \/ raw.scores[p] \notin LegalScores(p)}

\* pydantic hands the total_score validator the fields validated so far
ValidatedSections(raw) == {s \in SectionSet : SectionErrors(raw, s) = {}}

\* a total_score validator that checks the cap alone
ValidateTotalOnlyCap(v, raw) == v > 100

\* QAEvaluation.validate_total_score: TRUE iff the validator raises
ValidateTotalRaises(v, raw) ==
  LET values == ValidatedSections(raw)
      calculated_total == SumOver(raw.scores, UNION {ParamsOf(s) : s \in values})
  IN IF "greeting" \notin values THEN FALSE
     ELSE v # calculated_total \/ v > 100

\* QAEvaluation(**raw): the evaluation object, or the validation errors
\* (each named by the field that failed)
Construct(raw) ==
  LET fieldErrors == UNION {SectionErrors(raw, s) : s \in SectionSet}
      totalErrors == IF ~raw.has_total THEN {"total_score"}
                     ELSE IF ValidateTotalRaises(raw.total, raw) THEN {"total_score"}
                     ELSE {}
      errors == fieldErrors \cup totalErrors
  IN IF errors = {}
     THEN [ok |-> TRUE, total_score |-> raw.total, errors |-> {}]
     ELSE [ok |-> FALSE, total_score |-> 0, errors |-> errors]

(***************************************************************************)
(* The QA response normalizer: qa_evaluator.py                             *)
(*                                                                         *)
(* The LLM text is a sequence of tokens: "{" and "}" are the braces, "x"   *)
(* is any other text.  The two tokens <<"{", "}">> are the serialisation   *)
(* of the raw mapping the response carries; every other candidate is not   *)
(* a JSON document.                                                        *)
(***************************************************************************)
Tokens == {"{", "}", "x"}

\* a find that answers 0 when there is no occurrence
FindOrZero(text, c) ==
  IF \E i \in 1..Len(text) : text[i] = c
  THEN (CHOOSE i \in 1..Len(text) : text[i] = c /\ \A j \in 1..(i-1) : text[j] # c) - 1
  ELSE 0

\* str.find: 0-based index of the first occurrence, -1 when there is none
Find(text, c) ==
  IF \E i \in 1..Len(text) : text[i] = c
  THEN (CHOOSE i \in 1..Len(text) : text[i] = c /\ \A j \in 1..(i-1) : text[j] # c) - 1
  ELSE -1

\* str.rfind: 0-based index of the last occurrence, -1 when there is none
RFind(text, c) ==
  IF \E i \in 1..Len(text) : text[i] = c
  THEN (CHOOSE i \in 1..Len(text) : text[i] = c /\ \A j \in (i+1)..Len(text) : text[j] # c) - 1
  ELSE -1

\* text[start:end]
Slice(text, start, end) == SubSeq(text, start + 1, end)

\* json.loads succeeds on the candidate
JsonLoads(json_str) == json_str = <<"{", "}">>

\* a total that leaves the record handling section out
CalculateTotalScoreNoRecords(qa_data) ==
  SumOver([p \in Params |-> IF HasScore(qa_data, p) THEN qa_data.scores[p] ELSE 0],
          Params \ ParamsOf("record_handling"))

\* QAEvaluator._calculate_total_score: a missing section or score counts 0
CalculateTotalScore(qa_data) ==
  SumOver([p \in Params |-> IF HasScore(qa_data, p) THEN qa_data.scores[p] ELSE 0], Params)

\* a normalizer that computes the total only when the response has none
ParseQAResponseTrustsTotal(response_text, raw) ==
  LET start_idx == Find(response_text, "{")
      end_idx == RFind(response_text, "}") + 1
      json_str == Slice(response_text, start_idx, end_idx)
  IN IF start_idx = -1 \/ end_idx = 0
     THEN [ok |-> FALSE, qa_data |-> raw,
           error |-> <<"Failed to parse QA response", "No JSON found in response">>]
     ELSE IF ~JsonLoads(json_str)
     THEN [ok |-> FALSE, qa_data |-> raw,
           error |-> <<"Failed to parse QA response", "JSONDecodeError">>]
     ELSE IF raw.sections # SectionSet
     THEN [ok |-> FALSE, qa_data |-> raw,
           error |-> <<"Failed to parse QA response", "Missing required section">>]
     ELSE [ok |-> TRUE,
           qa_data |-> IF raw.has_total THEN raw
                       ELSE [raw EXCEPT !.has_total = TRUE, !.total = CalculateTotalScore(raw)],
           error |-> <<>>]

\* QAEvaluator._parse_qa_response: the mapping, or the message of the
\* exception it raises
ParseQAResponse(response_text, raw) ==
  LET start_idx == Find(response_text, "{")
      end_idx == RFind(response_text, "}") + 1
      json_str == Slice(response_text, start_idx, end_idx)
  IN IF start_idx = -1 \/ end_idx = 0
     THEN [ok |-> FALSE, qa_data |-> raw,
           error |-> <<"Failed to parse QA response", "No JSON found in response">>]
     ELSE IF ~JsonLoads(json_str)
     THEN [ok |-> FALSE, qa_data |-> raw,
           error |-> <<"Failed to parse QA response", "JSONDecodeError">>]
     ELSE IF raw.sections # SectionSet
     THEN [ok |-> FALSE, qa_data |-> raw,
           error |-> <<"Failed to parse QA response", "Missing required section">>]
     ELSE [ok |-> TRUE,
           qa_data |-> [raw EXCEPT !.has_total = TRUE, !.total = CalculateTotalScore(raw)],
           error |-> <<>>]

\* the scores of create_fallback_evaluation
FallbackScores ==
  [p \in Params |->
     IF p \in ParamsOf("hold_procedure") THEN 4
     ELSE IF p \in {"polite_courteous", "tone_speed", "clear_confident"} THEN 1
     ELSE 0]

\* QAEvaluator.create_fallback_evaluation
CreateFallbackEvaluation ==
  [sections |-> SectionSet, scores |-> FallbackScores, has_total |-> TRUE, total |-> 14]

\* QAEvaluator.evaluate_transcript_qa: the evaluation, or the message of the
\* exception it raises.  upstream_ok: generate_response returned a text.
EvaluateTranscriptQA(upstream_ok, response_text, raw) ==
  IF ~upstream_ok
  THEN [ok |-> FALSE, total_score |-> 0, errors |-> {},
        error |-> <<"Error evaluating QA", "Error generating response from Gemini">>]
  ELSE LET parsed == ParseQAResponse(response_text, raw) IN
       IF ~parsed.ok
       THEN [ok |-> FALSE, total_score |-> 0, errors |-> {},
             error |-> <<"Error evaluating QA">> \o parsed.error]
       ELSE LET qa_evaluation == Construct(parsed.qa_data) IN
            IF qa_evaluation.ok
            THEN [ok |-> TRUE, total_score |-> qa_evaluation.total_score,
                  errors |-> {}, error |-> <<>>]
            ELSE [ok |-> FALSE, total_score |-> 0, errors |-> qa_evaluation.errors,
                  error |-> <<"Error evaluating QA", "validation error">>]

(***************************************************************************)
(* The field extraction normalizer: field_extractor.py                     *)
(*                                                                         *)
(* The LLM text is a sequence of tokens as above.  The object it carries   *)
(* is a function from the keys it supplies to their values; a value is     *)
(*   [list |-> TRUE,  items |-> the elements]   for a JSON array,          *)
(*   [list |-> FALSE, items |-> <<the scalar>>] for a bare scalar.         *)
(***************************************************************************)
\* required_fields of _parse_gemini_response
RequiredFields ==
  {"agent_names", "patient_names", "test_centers", "tests_mentioned",
   "doctors_mentioned", "contact_info", "appointment_dates", "departments",
   "sentiment"}

\* the literal []
EmptyList == [list |-> TRUE, items |-> << >>]

\* a string value
Scalar(str) == [list |-> FALSE, items |-> <<str>>]

\* FieldExtractor._create_empty_result
CreateEmptyResult(error_message) ==
  [k \in RequiredFields \cup {"error"} |->
     IF k = "error" THEN Scalar(error_message) ELSE EmptyList]

\* a normalizer that returns the decoded object as it is
ParseGeminiResponseNoDefaults(response_text, obj) ==
  LET start_idx == Find(response_text, "{")
      end_idx == RFind(response_text, "}") + 1
      json_str == Slice(response_text, start_idx, end_idx)
  IN IF start_idx = -1 \/ end_idx = 0
     THEN CreateEmptyResult("No JSON found in response")
     ELSE IF ~JsonLoads(json_str)
     THEN CreateEmptyResult("JSON parsing error")
     ELSE obj

\* FieldExtractor._parse_gemini_response: the mapping it returns (it raises
\* nothing for a text without JSON or with malformed JSON)
ParseGeminiResponse(response_text, obj) ==
  LET start_idx == Find(response_text, "{")
      end_idx == RFind(response_text, "}") + 1
      json_str == Slice(response_text, start_idx, end_idx)
  IN IF start_idx = -1 \/ end_idx = 0
     THEN CreateEmptyResult("No JSON found in response")
     ELSE IF ~JsonLoads(json_str)
     THEN CreateEmptyResult("JSON parsing error")
     ELSE [k \in (DOMAIN obj) \cup RequiredFields |->
             IF k \in DOMAIN obj THEN obj[k] ELSE EmptyList]

\* FieldExtractor.extract_fields_from_transcript: the mapping, or the message
\* of the exception it raises.  upstream_ok: generate_response returned a text.
ExtractFieldsFromTranscript(upstream_ok, response_text, obj) ==
  IF ~upstream_ok
  THEN [ok |-> FALSE, extracted_data |-> CreateEmptyResult("none"),
        error |-> <<"Error extracting fields", "Error generating response from Gemini">>]
  ELSE [ok |-> TRUE, extracted_data |-> ParseGeminiResponse(response_text, obj),
        error |-> << >>]

(***************************************************************************)
(* State.                                                                  *)
(***************************************************************************)
VARIABLES
  \* --- one QA evaluation (SpecQA) ---
  qa_pc,           \* "off", "response" (the LLM text is being produced), "done"
  qaText,          \* the LLM text
  qaRaw,           \* the raw mapping the text carries / the constructor arguments
  qaEdited,        \* the response deviates from the base response in one place
  qaResult,        \* outcome of the construction or evaluation
  \* --- one field extraction (SpecFields) ---
  fx_pc,           \* "off", "response" (the LLM text was produced), "done"
  fxText,          \* the LLM text
  fxObj,           \* the object the text carries
  fxResult,        \* outcome of the normalisation or extraction
  \* --- one bulk submission (Spec) ---
  phase,           \* "idle", "pass1", "pass2", "returned"
  files,           \* the uploads: sequence of filenames (their extensions)
  eof,             \* eof[i]: the read position of upload i is at end-of-file
  sem,             \* value of the asyncio.Semaphore
  task,            \* task[i]: position of the task of file i in the current pass
  running,         \* the task that occupies the event loop, 0 when none does
  tr_attempt,      \* loop variable `attempt` of transcribe_audio_file
  local,           \* local[i]: local variables of the running attempt of file i
  results,         \* results[i]: what the task of file i returned in the current pass
  successful,      \* list `successful`
  failed_files,    \* list `failed_files` (indices into files)
  failed_results,  \* list `failed_results`
  response,        \* the HTTP response of the submission
  transcripts,     \* table transcripts
  qa_evaluations,  \* table qa_evaluations
  tempdirs,        \* number of temporary directories that exist
  faults,          \* number of uploads of the wrong type and of external calls that failed
  attempts,        \* attempts[i]: number of calls of process_single_file for file i
  stages,          \* stages[i]: the stages the current attempt has completed
  raised,          \* raised[i]: the error of the latest attempt, << >> when it has none
  first_outcome,   \* first_outcome[i]: "none", "ok", "failed" (first pass)
  tr_calls,        \* tr_calls[i]: upstream calls of the latest transcribe_audio_file of file i
  tr_sleeps,       \* tr_sleeps[i]: the time.sleep calls of the latest transcribe_audio_file
  upstream_calls,  \* upstream_calls[i]: upstream transcription calls for file i in the submission
  contents,        \* contents[i]: what each attempt of file i read from the upload, in order
  item_tempdirs    \* item_tempdirs[i]: temporary directories of file i that exist

qaVars == <<qa_pc, qaText, qaRaw, qaEdited, qaResult>>

fxVars == <<fx_pc, fxText, fxObj, fxResult>>

batchVars == <<phase, files, eof, sem, task, running, tr_attempt, local, results,
               successful, failed_files, failed_results, response, transcripts,
               qa_evaluations, tempdirs, faults, attempts, stages, raised,
               first_outcome, tr_calls, tr_sleeps, upstream_calls,
               contents, item_tempdirs>>

ioVars == <<contents, item_tempdirs>>

trVars == <<tr_calls, tr_sleeps, upstream_calls>>

vars == <<qa_pc, qaText, qaRaw, qaEdited, qaResult,
          fx_pc, fxText, fxObj, fxResult,
          phase, files, eof, sem, task, running, tr_attempt, local, results,
          successful, failed_files, failed_results, response, transcripts,
          qa_evaluations, tempdirs, faults, attempts, stages, raised, first_outcome,
          tr_calls, tr_sleeps, upstream_calls, contents, item_tempdirs>>

(***************************************************************************)
(* SpecQA: responses of the upstream model, construction and evaluation.   *)
(***************************************************************************)
\* scores the upstream model may put in a parameter
ScoreVals == -1..MaxScoreVal

AllParamsRaw(scores, has_total, total) ==
  [sections |-> SectionSet, scores |-> scores, has_total |-> has_total, total |-> total]

\* every parameter at its highest legal score
MaxScores == [p \in Params |-> CHOOSE v \in LegalScores(p) : \A w \in LegalScores(p) : w <= v]

\* every parameter at its lowest legal score
MinScores == [p \in Params |-> CHOOSE v \in LegalScores(p) : \A w \in LegalScores(p) : v <= w]

\* every parameter at 0
ZeroScores == [p \in Params |-> 0]

BaseScores == {MaxScores, MinScores, ZeroScores}

\* the empty mapping
EmptyRaw == [sections |-> {}, scores |-> << >>, has_total |-> FALSE, total |-> 0]

NoQAResult == [via |-> "none"]

QATexts == UNION {[1..n -> Tokens] : n \in 0..MaxTextLen}

QAOff ==
  /\ qa_pc = "off"
  /\ qaText = << >>
  /\ qaRaw = EmptyRaw
  /\ qaEdited = FALSE
  /\ qaResult = NoQAResult

QAInit ==
  /\ qa_pc = "response"
  /\ qaText \in QATexts
  /\ \E b \in BaseScores : qaRaw = AllParamsRaw(b, FALSE, 0)
  /\ qaEdited = FALSE
  /\ qaResult = NoQAResult

\* the mapping deviates from a base response in at most one place (one score,
\* one missing parameter or one missing section), and only when there is no
\* text or the text carries the mapping
CanEdit ==
  /\ qa_pc = "response"
  /\ ~qaEdited
  /\ qaText \in {<< >>, <<"{", "}">>}

\* the upstream model answers v for parameter p
SetScore(p, v) ==
  /\ CanEdit
  /\ HasScore(qaRaw, p)
  /\ qaRaw.scores[p] # v
  /\ qaRaw' = [qaRaw EXCEPT !.scores[p] = v]
  /\ qaEdited' = TRUE
  /\ UNCHANGED <<qa_pc, qaText, qaResult>>
  /\ UNCHANGED batchVars
  /\ UNCHANGED fxVars

\* the upstream model leaves parameter p out
DropScore(p) ==
  /\ CanEdit
  /\ HasScore(qaRaw, p)
  /\ qaRaw' = [qaRaw EXCEPT !.scores = [q \in (DOMAIN qaRaw.scores) \ {p} |-> qaRaw.scores[q]]]
  /\ qaEdited' = TRUE
  /\ UNCHANGED <<qa_pc, qaText, qaResult>>
  /\ UNCHANGED batchVars
  /\ UNCHANGED fxVars

\* the upstream model leaves section s out
DropSection(s) ==
  /\ CanEdit
  /\ s \in qaRaw.sections
  /\ qaRaw' = [qaRaw EXCEPT !.sections = qaRaw.sections \ {s},
                            !.scores = [q \in (DOMAIN qaRaw.scores) \ ParamsOf(s) |-> qaRaw.scores[q]]]
  /\ qaEdited' = TRUE
  /\ UNCHANGED <<qa_pc, qaText, qaResult>>
  /\ UNCHANGED batchVars
  /\ UNCHANGED fxVars

\* the total_score the upstream model (or the caller) supplies: right, off by
\* one, or out of range
SuppliedTotals(raw) ==
  {CalculateTotalScore(raw) + d : d \in {-1, 0, 1}} \cup {0, 100, 101}

SupplyTotal(t) ==
  /\ qa_pc = "response"
  /\ ~qaRaw.has_total
  /\ qaRaw' = [qaRaw EXCEPT !.has_total = TRUE, !.total = t]
  /\ UNCHANGED <<qa_pc, qaText, qaEdited, qaResult>>
  /\ UNCHANGED batchVars
  /\ UNCHANGED fxVars

\* QAEvaluation(**qaRaw), called directly
ConstructEvaluation ==
  /\ qa_pc = "response"
  /\ qaText = << >>
  /\ qaResult' = [via |-> "construct"] @@ Construct(qaRaw)
  /\ qa_pc' = "done"
  /\ UNCHANGED <<qaText, qaRaw, qaEdited>>
  /\ UNCHANGED batchVars
  /\ UNCHANGED fxVars

\* QAEvaluation(**create_fallback_evaluation(error_message))
ConstructFallback ==
  /\ qa_pc = "response"
  /\ qaText = << >>
  /\ ~qaEdited
  /\ ~qaRaw.has_total
  /\ qaRaw' = CreateFallbackEvaluation
  /\ qaResult' = [via |-> "fallback"] @@ Construct(CreateFallbackEvaluation)
  /\ qa_pc' = "done"
  /\ UNCHANGED <<qaText, qaEdited>>
  /\ UNCHANGED batchVars
  /\ UNCHANGED fxVars

\* evaluate_transcript_qa on the response
EvaluateResponse(upstream_ok) ==
  /\ qa_pc = "response"
  /\ qaResult' = [via |-> "evaluate", upstream_ok |-> upstream_ok]
                   @@ EvaluateTranscriptQA(upstream_ok, qaText, qaRaw)
  /\ qa_pc' = "done"
  /\ UNCHANGED <<qaText, qaRaw, qaEdited>>
  /\ UNCHANGED batchVars
  /\ UNCHANGED fxVars

QANext ==
  \/ \E p \in Params, v \in ScoreVals : SetScore(p, v)
  \/ \E p \in Params : DropScore(p)
  \/ \E s \in SectionSet : DropSection(s)
  \/ \E t \in SuppliedTotals(qaRaw) : SupplyTotal(t)
  \/ ConstructEvaluation
  \/ ConstructFallback
  \/ \E upstream_ok \in BOOLEAN : EvaluateResponse(upstream_ok)

(***************************************************************************)
(* SpecFields: one answer of the upstream model to the extraction prompt,  *)
(* normalised and extracted.                                               *)
(***************************************************************************)
\* the values the upstream model gives a field: a bare string, an empty
\* list, a list of one name
FieldValues == {Scalar("a"), EmptyList, [list |-> TRUE, items |-> <<"a">>]}

\* every field a list of one name
FullObject == [k \in RequiredFields |-> [list |-> TRUE, items |-> <<"a">>]]

\* the empty object {}
EmptyObject == [k \in {} |-> EmptyList]

\* the objects of the upstream model: the full object, the full object with
\* one field left out or given another value, and the empty object
FieldObjects ==
  {FullObject, EmptyObject}
    \cup {[k \in RequiredFields \ {f} |-> FullObject[k]] : f \in RequiredFields}
    \cup {[FullObject EXCEPT ![f] = v] : f \in RequiredFields, v \in FieldValues}

NoFxResult == [via |-> "none"]

FxOff ==
  /\ fx_pc = "off"
  /\ fxText = << >>
  /\ fxObj = EmptyObject
  /\ fxResult = NoFxResult

FxInit ==
  /\ fx_pc = "response"
  /\ fxText \in QATexts
  /\ fxObj \in FieldObjects
  /\ fxResult = NoFxResult

\* _parse_gemini_response on the response
ParseFieldResponse ==
  /\ fx_pc = "response"
  /\ fxResult' = [via |-> "parse", ok |-> TRUE, error |-> << >>,
                  extracted_data |-> ParseGeminiResponse(fxText, fxObj)]
  /\ fx_pc' = "done"
  /\ UNCHANGED <<fxText, fxObj>>
  /\ UNCHANGED qaVars
  /\ UNCHANGED batchVars

\* extract_fields_from_transcript on the response
ExtractFromResponse(upstream_ok) ==
  /\ fx_pc = "response"
  /\ fxResult' = [via |-> "extract", upstream_ok |-> upstream_ok]
                   @@ ExtractFieldsFromTranscript(upstream_ok, fxText, fxObj)
  /\ fx_pc' = "done"
  /\ UNCHANGED <<fxText, fxObj>>
  /\ UNCHANGED qaVars
  /\ UNCHANGED batchVars

FieldsNext ==
  \/ ParseFieldResponse
  \/ \E upstream_ok \in BOOLEAN : ExtractFromResponse(upstream_ok)

(***************************************************************************)
(* Spec: one bulk submission.  file_processor.py, database.py, main.py     *)
(***************************************************************************)
\* the filenames of the uploads: a stem and an extension, the extension a
\* sequence of characters that starts with the dot
FileNames ==
  { [stem |-> "call",  ext |-> <<".", "W", "A", "V">>],
    [stem |-> "notes", ext |-> <<".", "t", "x", "t">>] }

\* str.lower() on one character
Lower(ch) ==
  CASE ch = "W" -> "w"
    [] ch = "A" -> "a"
    [] ch = "V" -> "v"
    [] OTHER    -> ch

\* os.path.splitext(filename)[1].lower()
LowerExtension(filename) == [k \in 1..Len(filename.ext) |-> Lower(filename.ext[k])]

\* allowed_extensions
AllowedExtensions ==
  { <<".", "w", "a", "v">>, <<".", "m", "p", "3">>, <<".", "m", "4", "a">>,
    <<".", "f", "l", "a", "c">> }

\* a type check that compares the extension as it is written
ValidateFileTypeCaseSensitive(filename) == filename.ext \in AllowedExtensions

\* validate_file_type
ValidateFileType(filename) == LowerExtension(filename) \in AllowedExtensions

\* asyncio.Semaphore(3)
ConcurrencyLimit == 3

\* a budget of four retries
max_retries_doubled == 2 * 2

\* transcribe_audio_file(file_path, max_retries=2)
max_retries == 2

\* an acquire that never waits
SlotFreeAlways(value) == TRUE

\* Semaphore.acquire returns without waiting
SlotFree(value) == value > 0

\* a pipeline that scores before it saves the transcript
NextStageScoreFirst(stage) ==
  CASE stage = "read"            -> "transcribe"
    [] stage = "transcribe"      -> "extract_fields"
    [] stage = "extract_fields"  -> "evaluate_qa"
    [] stage = "evaluate_qa"     -> "save_transcript"
    [] stage = "save_transcript" -> "save_qa"
    [] stage = "save_qa"         -> "return"

\* the order of the stages of process_single_file after the upload was read
NextStage(stage) ==
  CASE stage = "read"            -> "transcribe"
    [] stage = "transcribe"      -> "extract_fields"
    [] stage = "extract_fields"  -> "save_transcript"
    [] stage = "save_transcript" -> "evaluate_qa"
    [] stage = "evaluate_qa"     -> "save_qa"
    [] stage = "save_qa"         -> "return"

Items == 1..Len(files)

NoResult == [kind |-> "none"]

NoLocal == [transcript_id |-> 0, total_score |-> 0, extraction_error |-> FALSE]

NoResponse == [status |-> 0]

\* the uploads of fs that are not audio files
NumInvalid(fs) == Cardinality({i \in 1..Len(fs) : ~ValidateFileType(fs[i])})

\* an external call may fail: always in a submission of one file, and within
\* the load in a larger one
MayFail == Len(files) <= 1 \/ Len(files) + faults < MaxLoad

\* no handler: the exception leaves process_single_file
Uncaught(i, message) ==
  [kind |-> "exception", file |-> i, error |-> message]

\* the handler `except Exception as e` of process_single_file
Caught(i, message) ==
  [kind |-> "dict", success |-> FALSE, file |-> i, error |-> message]

\* the result of process_single_file for a file of the wrong type
InvalidType(i) ==
  [kind |-> "dict", success |-> FALSE, file |-> i,
   error |-> <<"Please upload a valid audio file">>]

\* a success result that reports the ids of the rows before its own
SuccessStaleIds(i, transcript_id, qa_id, total_score) ==
  [kind |-> "dict", success |-> TRUE, file |-> i, transcript_id |-> transcript_id - 1,
   qa_evaluation_id |-> qa_id - 1, total_score |-> total_score]

\* the result of process_single_file on success
Success(i, transcript_id, qa_id, total_score) ==
  [kind |-> "dict", success |-> TRUE, file |-> i, transcript_id |-> transcript_id,
   qa_evaluation_id |-> qa_id, total_score |-> total_score]

\* the state of the submission before it is received (phase "idle"), or in a
\* run of SpecQA (phase "off")
BatchEmpty(ph) ==
  /\ phase = ph
  /\ files = << >>
  /\ eof = << >>
  /\ sem = 0
  /\ task = << >>
  /\ running = 0
  /\ tr_attempt = 0
  /\ local = << >>
  /\ results = << >>
  /\ successful = << >>
  /\ failed_files = << >>
  /\ failed_results = << >>
  /\ response = NoResponse
  /\ transcripts = << >>
  /\ qa_evaluations = << >>
  /\ tempdirs = 0
  /\ faults = 0
  /\ attempts = << >>
  /\ stages = << >>
  /\ raised = << >>
  /\ first_outcome = << >>
  /\ tr_calls = << >>
  /\ tr_sleeps = << >>
  /\ upstream_calls = << >>
  /\ contents = << >>
  /\ item_tempdirs = << >>

\* bulk_upload_and_process is called with the uploads fs: an empty list
\* raises HTTPException(400), which the handler's own `except Exception`
\* turns into HTTPException(500); otherwise the semaphore is created and
\* the first pass is gathered
BulkUpload(fs) ==
  /\ phase = "idle"
  /\ files' = fs
  /\ eof' = [i \in 1..Len(fs) |-> FALSE]
  /\ attempts' = [i \in 1..Len(fs) |-> 0]
  /\ stages' = [i \in 1..Len(fs) |-> << >>]
  /\ raised' = [i \in 1..Len(fs) |-> << >>]
  /\ first_outcome' = [i \in 1..Len(fs) |-> "none"]
  /\ tr_calls' = [i \in 1..Len(fs) |-> 0]
  /\ tr_sleeps' = [i \in 1..Len(fs) |-> << >>]
  /\ upstream_calls' = [i \in 1..Len(fs) |-> 0]
  /\ contents' = [i \in 1..Len(fs) |-> << >>]
  /\ item_tempdirs' = [i \in 1..Len(fs) |-> 0]
  /\ local' = [i \in 1..Len(fs) |-> NoLocal]
  /\ results' = [i \in 1..Len(fs) |-> NoResult]
  /\ IF fs = << >>
     THEN /\ phase' = "returned"
          /\ response' = [status |-> 500, detail |-> <<"400", "No files provided">>]
          /\ UNCHANGED <<sem, task>>
     ELSE /\ phase' = "pass1"
          /\ sem' = ConcurrencyLimit
          /\ task' = [i \in 1..Len(fs) |-> "ready"]
          /\ UNCHANGED response
  /\ faults' = NumInvalid(fs)
  /\ UNCHANGED <<running, tr_attempt, successful, failed_files, failed_results,
                 transcripts, qa_evaluations, tempdirs>>
  /\ UNCHANGED qaVars
  /\ UNCHANGED fxVars

\* process_with_semaphore starts: `async with semaphore` takes a slot and
\* goes on into process_single_file, or finds none and waits.  The event
\* loop starts the tasks of a gather in the order of their creation.
Start(i) ==
  /\ phase \in {"pass1", "pass2"}
  /\ running = 0
  /\ task[i] = "ready"
  /\ \A j \in 1..(i-1) : task[j] # "ready"
  /\ IF SlotFree(sem)
     THEN /\ sem' = sem - 1
          /\ task' = [task EXCEPT ![i] = "validate"]
          /\ running' = i
     ELSE /\ task' = [task EXCEPT ![i] = "waiting"]
          /\ UNCHANGED <<sem, running>>
  /\ UNCHANGED <<phase, files, eof, tr_attempt, local, results, successful, failed_files,
                 failed_results, response, transcripts, qa_evaluations, tempdirs,
                 faults, attempts, stages, raised, first_outcome>>
  /\ UNCHANGED trVars
  /\ UNCHANGED ioVars
  /\ UNCHANGED qaVars
  /\ UNCHANGED fxVars

\* a waiting task gets a released slot; the semaphore wakes its waiters in
\* the order of their arrival
Admit(i) ==
  /\ running = 0
  /\ task[i] = "waiting"
  /\ \A j \in 1..(i-1) : task[j] # "waiting"
  /\ SlotFree(sem)
  /\ sem' = sem - 1
  /\ task' = [task EXCEPT ![i] = "validate"]
  /\ running' = i
  /\ UNCHANGED <<phase, files, eof, tr_attempt, local, results, successful,
                 failed_files, failed_results, response, transcripts, qa_evaluations,
                 tempdirs, faults, attempts, stages, raised, first_outcome>>
  /\ UNCHANGED trVars
  /\ UNCHANGED ioVars
  /\ UNCHANGED qaVars
  /\ UNCHANGED fxVars

\* a return that keeps the slot
ReturnKeepsSlot(i, result) ==
  /\ results' = [results EXCEPT ![i] = result]
  /\ sem' = sem
  /\ task' = [task EXCEPT ![i] = "finished"]
  /\ running' = 0
  /\ tr_attempt' = 0
  /\ local' = [local EXCEPT ![i] = NoLocal]
  /\ first_outcome' = IF phase = "pass1"
                      THEN [first_outcome EXCEPT ![i] =
                              IF result.kind = "dict" /\ result.success THEN "ok" ELSE "failed"]
                      ELSE first_outcome

\* process_single_file returns result: `async with` releases the slot and
\* the task is done
Return(i, result) ==
  /\ results' = [results EXCEPT ![i] = result]
  /\ sem' = sem + 1
  /\ task' = [task EXCEPT ![i] = "finished"]
  /\ running' = 0
  /\ tr_attempt' = 0
  /\ local' = [local EXCEPT ![i] = NoLocal]
  /\ first_outcome' = IF phase = "pass1"
                      THEN [first_outcome EXCEPT ![i] =
                              IF result.kind = "dict" /\ result.success THEN "ok" ELSE "failed"]
                      ELSE first_outcome

\* an exception with this message reaches the handler of process_single_file
Raise(i, message) ==
  /\ Return(i, Caught(i, message))
  /\ raised' = [raised EXCEPT ![i] = message]

\* the running attempt of file i completed `stage` and goes on
Proceed(i, stage) ==
  /\ task' = [task EXCEPT ![i] = NextStage(stage)]
  /\ stages' = [stages EXCEPT ![i] = Append(@, stage)]
  /\ UNCHANGED <<results, sem, running, raised, first_outcome>>

\* process_single_file up to `await file.read()`: the type check, and the
\* temporary directory
Validate(i) ==
  /\ running = i
  /\ task[i] = "validate"
  /\ attempts' = [attempts EXCEPT ![i] = @ + 1]
  /\ stages' = [stages EXCEPT ![i] = << >>]
  /\ IF ~ValidateFileType(files[i])
     THEN /\ Return(i, InvalidType(i))
          /\ raised' = [raised EXCEPT ![i] = InvalidType(i).error]
          /\ UNCHANGED <<tempdirs, item_tempdirs>>
     ELSE /\ tempdirs' = tempdirs + 1
          /\ item_tempdirs' = [item_tempdirs EXCEPT ![i] = @ + 1]
          /\ task' = [task EXCEPT ![i] = "read"]
          /\ running' = 0
          /\ raised' = [raised EXCEPT ![i] = << >>]
          /\ UNCHANGED <<sem, results, tr_attempt, local, first_outcome>>
  /\ UNCHANGED <<phase, files, eof, successful, failed_files, failed_results,
                 response, transcripts, qa_evaluations, faults>>
  /\ UNCHANGED trVars
  /\ UNCHANGED contents
  /\ UNCHANGED qaVars
  /\ UNCHANGED fxVars

\* the bytes of an upload
AudioBytes == <<"audio">>

\* UploadFile.read(): the bytes from the read position to the end
FileRead(at_eof) == IF at_eof THEN << >> ELSE AudioBytes

\* file.read() completes (the read position is left at the end) and the
\* content is written to the temporary file
Read(i) ==
  /\ running = 0
  /\ task[i] = "read"
  /\ contents' = [contents EXCEPT ![i] = Append(@, FileRead(eof[i]))]
  /\ eof' = [eof EXCEPT ![i] = TRUE]
  /\ UNCHANGED item_tempdirs
  /\ task' = [task EXCEPT ![i] = NextStage("read")]
  /\ running' = i
  /\ tr_attempt' = 0
  /\ tr_calls' = [tr_calls EXCEPT ![i] = 0]
  /\ tr_sleeps' = [tr_sleeps EXCEPT ![i] = << >>]
  /\ UNCHANGED upstream_calls
  /\ UNCHANGED <<phase, files, sem, local, results, successful, failed_files,
                 failed_results, response, transcripts, qa_evaluations, tempdirs,
                 faults, attempts, stages, raised, first_outcome>>
  /\ UNCHANGED qaVars
  /\ UNCHANGED fxVars

\* a backoff that does not grow
BackoffConstant(attempt) == 1

\* backoff_seconds = 1 * (2 ** attempt)
Backoff(attempt) == 2 ^ attempt

\* the exception of the upstream call number n of one transcribe_audio_file
UpstreamError(n) == <<"Error transcribing audio from gemini", ToString(n)>>

\* f"Transcription failed after {max_retries + 1} attempts: {last_error}"
TranscriptionFailed(last_error) ==
  <<"Transcription failed after", ToString(max_retries + 1), "attempts">> \o last_error

\* one iteration of the loop of transcribe_audio_file: the upstream call
\* returns the transcription, or fails and the loop sleeps and goes on, or
\* fails for the last time and the exception reaches process_single_file
Transcribe(i, upstream_ok) ==
  /\ running = i
  /\ task[i] = "transcribe"
  /\ upstream_ok \/ MayFail
  /\ tr_calls' = [tr_calls EXCEPT ![i] = @ + 1]
  /\ upstream_calls' = [upstream_calls EXCEPT ![i] = @ + 1]
  /\ IF upstream_ok
     THEN /\ Proceed(i, "transcribe")
          /\ tr_attempt' = 0
          /\ UNCHANGED <<faults, local, tr_sleeps>>
     ELSE /\ faults' = faults + 1
          /\ IF tr_attempt < max_retries
             THEN /\ tr_sleeps' = [tr_sleeps EXCEPT ![i] = Append(@, Backoff(tr_attempt))]
                  /\ tr_attempt' = tr_attempt + 1
                  /\ UNCHANGED <<task, sem, results, running, local, raised, first_outcome>>
             ELSE /\ Raise(i, TranscriptionFailed(UpstreamError(tr_attempt + 1)))
                  /\ UNCHANGED tr_sleeps
          /\ UNCHANGED stages
  /\ UNCHANGED <<phase, files, eof, successful, failed_files, failed_results,
                 response, transcripts, qa_evaluations, tempdirs, attempts>>
  /\ UNCHANGED ioVars
  /\ UNCHANGED qaVars
  /\ UNCHANGED fxVars

\* the answers of the upstream model to the extraction prompt in a
\* submission: the full object, and a text without JSON
FieldResponses ==
  { [text |-> <<"{", "}">>, obj |-> FullObject],
    [text |-> <<"x">>, obj |-> EmptyObject] }

\* extract_fields_from_transcript(transcript_text): the upstream call fails
\* and the exception reaches process_single_file, or the text is normalised
\* and the pipeline goes on with the mapping (the empty result when the text
\* has no JSON: an answer of that kind counts as a fault)
ExtractFields(i, upstream_ok, resp) ==
  /\ running = i
  /\ task[i] = "extract_fields"
  /\ LET extracted == ExtractFieldsFromTranscript(upstream_ok, resp.text, resp.obj)
         empty == "error" \in DOMAIN extracted.extracted_data
     IN /\ (extracted.ok /\ ~empty) \/ MayFail
        /\ IF extracted.ok
           THEN /\ Proceed(i, "extract_fields")
                /\ local' = [local EXCEPT ![i].extraction_error = empty]
                /\ faults' = IF empty THEN faults + 1 ELSE faults
                /\ UNCHANGED tr_attempt
           ELSE /\ faults' = faults + 1
                /\ Raise(i, extracted.error)
                /\ UNCHANGED stages
  /\ UNCHANGED <<phase, files, eof, successful, failed_files, failed_results,
                 response, transcripts, qa_evaluations, tempdirs, attempts>>
  /\ UNCHANGED trVars
  /\ UNCHANGED ioVars
  /\ UNCHANGED qaVars
  /\ UNCHANGED fxVars

\* database.save_transcript_data: one row (the file it belongs to, and
\* whether its fields are those of the empty result), its id is the new
\* lastrowid
SaveTranscript(i, db_ok) ==
  /\ running = i
  /\ task[i] = "save_transcript"
  /\ db_ok \/ MayFail
  /\ IF db_ok
     THEN /\ transcripts' = Append(transcripts, [file |-> i,
                                              extraction_error |-> local[i].extraction_error])
          /\ Proceed(i, "save_transcript")
          /\ local' = [local EXCEPT ![i].transcript_id = Len(transcripts) + 1]
          /\ UNCHANGED <<faults, tr_attempt>>
     ELSE /\ faults' = faults + 1
          /\ Raise(i, <<"Database error">>)
          /\ UNCHANGED <<transcripts, stages>>
  /\ UNCHANGED <<phase, files, eof, successful, failed_files, failed_results,
                 response, qa_evaluations, tempdirs, attempts>>
  /\ UNCHANGED trVars
  /\ UNCHANGED ioVars
  /\ UNCHANGED qaVars
  /\ UNCHANGED fxVars

\* the answers of the upstream model to the QA prompt in a submission: a
\* legal evaluation with a wrong total, an evaluation with an illegal
\* score, and a text without JSON
QAResponses ==
  { [text |-> <<"{", "}">>, raw |-> AllParamsRaw(MaxScores, TRUE, 99)],
    [text |-> <<"{", "}">>, raw |-> AllParamsRaw([MaxScores EXCEPT !["tone_speed"] = 2], FALSE, 0)],
    [text |-> <<"x">>, raw |-> EmptyRaw] }

\* what evaluate_transcript_qa makes of each answer
QAOutcomes ==
  [resp \in QAResponses, upstream_ok \in BOOLEAN |->
     EvaluateTranscriptQA(upstream_ok, resp.text, resp.raw)]

\* qa_evaluator.evaluate_transcript_qa(transcript_text)
EvaluateQA(i, upstream_ok, resp) ==
  /\ running = i
  /\ task[i] = "evaluate_qa"
  /\ LET qa_evaluation == QAOutcomes[resp, upstream_ok] IN
     /\ qa_evaluation.ok \/ MayFail
     /\ IF qa_evaluation.ok
        THEN /\ Proceed(i, "evaluate_qa")
             /\ local' = [local EXCEPT ![i].total_score = qa_evaluation.total_score]
             /\ UNCHANGED <<faults, tr_attempt>>
        ELSE /\ faults' = faults + 1
             /\ Raise(i, qa_evaluation.error)
             /\ UNCHANGED stages
  /\ UNCHANGED <<phase, files, eof, successful, failed_files, failed_results,
                 response, transcripts, qa_evaluations, tempdirs, attempts>>
  /\ UNCHANGED trVars
  /\ UNCHANGED ioVars
  /\ UNCHANGED qaVars
  /\ UNCHANGED fxVars

\* database.save_qa_evaluation, then the temporary file and directory are
\* removed and the success result is returned
SaveQA(i, db_ok) ==
  /\ running = i
  /\ task[i] = "save_qa"
  /\ db_ok \/ MayFail
  /\ IF db_ok
     THEN /\ qa_evaluations' = Append(qa_evaluations,
                                 [transcript_id |-> local[i].transcript_id,
                                  total_score |-> local[i].total_score])
          /\ tempdirs' = tempdirs - 1
          /\ item_tempdirs' = [item_tempdirs EXCEPT ![i] = @ - 1]
          /\ stages' = [stages EXCEPT ![i] = Append(@, "save_qa")]
          /\ Return(i, Success(i, local[i].transcript_id, Len(qa_evaluations) + 1,
                               local[i].total_score))
          /\ UNCHANGED <<faults, raised>>
     ELSE /\ faults' = faults + 1
          /\ Raise(i, <<"Database error">>)
          /\ UNCHANGED <<qa_evaluations, tempdirs, item_tempdirs, stages>>
  /\ UNCHANGED <<phase, files, eof, successful, failed_files, failed_results,
                 response, transcripts, attempts>>
  /\ UNCHANGED trVars
  /\ UNCHANGED contents
  /\ UNCHANGED qaVars
  /\ UNCHANGED fxVars

(***************************************************************************)
(* The two passes of bulk_upload_and_process.                              *)
(***************************************************************************)
\* a split that takes every result for failed
IsFailureAlways(result) == TRUE

\* a first-pass or retry result that counts as failed
IsFailure(result) == result.kind = "exception" \/ ~result.success

\* failed_results[i] = None
NoneEntry == [none |-> TRUE]

\* the entry appended to failed_results in the first pass
FirstFailedEntry(result) ==
  IF result.kind = "exception"
  THEN [file |-> result.file, error |-> result.error, attempt |-> 1]
  ELSE result @@ [attempt |-> 1]

\* a retry loop that counts the attempt and keeps the first error
RetryEntryKeepsError(entry, result) ==
  IF result.kind = "exception"
  THEN [entry EXCEPT !.attempt = 2]
  ELSE IF result.success
  THEN NoneEntry
  ELSE [entry EXCEPT !.attempt = 2]

\* what the retry loop leaves in failed_results[i] for the retry result
RetryEntry(entry, result) ==
  IF result.kind = "exception"
  THEN [entry EXCEPT !.error = <<"Retry failed">> \o result.error, !.attempt = 2]
  ELSE IF result.success
  THEN NoneEntry
  ELSE [entry EXCEPT !.error = <<"Retry failed">> \o result.error, !.attempt = 2]

\* no removal of the entries marked None
RemoveNoneKeepsAll(entries) == entries

\* [f for f in failed_results if f is not None]
RemoveNone(entries) == SelectSeq(entries, LAMBDA f : f # NoneEntry)

\* the content of the JSONResponse
Report(fs, final_successful, final_failed) ==
  [status |-> 200,
   success |-> TRUE,
   total_files |-> Len(fs),
   successful_count |-> Len(final_successful),
   failed_count |-> Len(final_failed),
   successful_files |-> final_successful,
   failed_files |-> final_failed]

\* a retry pass that gathers every file again
InRetryTasksAll(failed, i) == TRUE

\* retry_tasks has a task for file i: the file is in failed_files
InRetryTasks(failed, i) == \E k \in 1..Len(failed) : failed[k] = i

\* the indices of the files, in order
FileIndices == [i \in 1..Len(files) |-> i]

\* the first gather returned: the results are split, and either the report
\* is returned or the failed files are gathered again
FirstPassDone ==
  /\ phase = "pass1"
  /\ running = 0
  /\ \A i \in Items : task[i] = "finished"
  /\ LET failedIdx == SelectSeq(FileIndices, LAMBDA i : IsFailure(results[i]))
         okIdx == SelectSeq(FileIndices, LAMBDA i : ~IsFailure(results[i]))
         succ == [k \in 1..Len(okIdx) |-> results[okIdx[k]]]
         failed == [k \in 1..Len(failedIdx) |-> FirstFailedEntry(results[failedIdx[k]])]
     IN /\ successful' = succ
        /\ failed_files' = failedIdx
        /\ failed_results' = failed
        /\ IF failedIdx = << >>
           THEN /\ phase' = "returned"
                /\ response' = Report(files, succ, failed)
                /\ UNCHANGED <<task, results>>
           ELSE /\ phase' = "pass2"
                /\ task' = [i \in Items |->
                              IF InRetryTasks(failedIdx, i) THEN "ready" ELSE "none"]
                /\ results' = [i \in Items |-> NoResult]
                /\ UNCHANGED response
  /\ UNCHANGED <<files, eof, sem, running, tr_attempt, local, transcripts,
                 qa_evaluations, tempdirs, faults, attempts, stages, raised, first_outcome>>
  /\ UNCHANGED trVars
  /\ UNCHANGED ioVars
  /\ UNCHANGED qaVars
  /\ UNCHANGED fxVars

\* the second gather returned: the retry results are merged and the report
\* is returned
RetryPassDone ==
  /\ phase = "pass2"
  /\ running = 0
  /\ \A k \in 1..Len(failed_files) : task[failed_files[k]] = "finished"
  /\ LET retry_results == [k \in 1..Len(failed_files) |-> results[failed_files[k]]]
         retried_ok == SelectSeq(retry_results, LAMBDA r : ~IsFailure(r))
         merged == [k \in 1..Len(failed_files) |-> RetryEntry(failed_results[k], retry_results[k])]
         final_successful == successful \o retried_ok
         final_failed == RemoveNone(merged)
     IN /\ successful' = final_successful
        /\ failed_results' = final_failed
        /\ response' = Report(files, final_successful, final_failed)
  /\ phase' = "returned"
  /\ UNCHANGED <<files, eof, sem, task, running, tr_attempt, local, results,
                 failed_files, transcripts, qa_evaluations, tempdirs, faults,
                 attempts, stages, raised, first_outcome>>
  /\ UNCHANGED trVars
  /\ UNCHANGED ioVars
  /\ UNCHANGED qaVars
  /\ UNCHANGED fxVars

\* the uploads of a submission
FileLists ==
  {fs \in UNION {[1..n -> FileNames] : n \in 0..MaxFiles} :
     Len(fs) <= 1 \/ Len(fs) + NumInvalid(fs) <= MaxLoad}

BatchNext ==
  \/ \E fs \in FileLists : BulkUpload(fs)
  \/ \E i \in Items : Start(i)
  \/ \E i \in Items : Admit(i)
  \/ \E i \in Items : Validate(i)
  \/ \E i \in Items : Read(i)
  \/ \E i \in Items, upstream_ok \in BOOLEAN : Transcribe(i, upstream_ok)
  \/ \E i \in Items, upstream_ok \in BOOLEAN, resp \in FieldResponses :
       ExtractFields(i, upstream_ok, resp)
  \/ \E i \in Items, db_ok \in BOOLEAN : SaveTranscript(i, db_ok)
  \/ \E i \in Items, upstream_ok \in BOOLEAN, resp \in QAResponses : EvaluateQA(i, upstream_ok, resp)
  \/ \E i \in Items, db_ok \in BOOLEAN : SaveQA(i, db_ok)
  \/ FirstPassDone
  \/ RetryPassDone

Init == BatchEmpty("idle") /\ QAOff /\ FxOff

Next == BatchNext

Spec == Init /\ [][Next]_vars

InitQA == BatchEmpty("off") /\ QAInit /\ FxOff

NextQA == QANext

SpecQA == InitQA /\ [][NextQA]_vars

InitFields == BatchEmpty("off") /\ QAOff /\ FxInit

NextFields == FieldsNext

SpecFields == InitFields /\ [][NextFields]_vars

\* the bulk submission when every call returns or fails in finite time and
\* the event loop runs every task that can run
SpecLive == Init /\ [][Next]_vars /\ WF_vars(Next)

(***************************************************************************)
(* Properties of the bulk submission (Spec).                               *)
(***************************************************************************)
\* the tasks that hold a slot of the semaphore (are inside process_single_file)
InFlight ==
  {i \in Items : task[i] \in {"validate", "read", "transcribe", "extract_fields",
                              "save_transcript", "evaluate_qa", "save_qa"}}

Returned == phase = "returned" /\ files # << >>

\* the entries of a list of the report that belong to file i
EntriesOf(entries, i) ==
  {k \in 1..Len(entries) : "file" \in DOMAIN entries[k] /\ entries[k].file = i}

IsPrefix(s, t) == Len(s) <= Len(t) /\ s = SubSeq(t, 1, Len(s))

\* C1: in both passes at most 3 items hold a semaphore slot at any instant,
\* whatever the number of files; an item that starts while 3 slots are held
\* waits, and a waiting item enters only when fewer than 3 slots are held.
C1_AtMostThreeInFlight ==
  /\ [](Cardinality(InFlight) <= 3)
  /\ [][\A i \in Items :
          /\ (task[i] = "ready" /\ task'[i] # "ready" /\ Cardinality(InFlight) >= 3)
               => task'[i] = "waiting"
          /\ (task[i] = "waiting" /\ task'[i] # "waiting")
               => (Cardinality(InFlight) < 3 /\ task'[i] = "validate")]_vars

C1_Witness ==
  /\ Cardinality(InFlight) = 3
  /\ \E i \in Items : task[i] = "waiting"

\* C2: every item is attempted at most twice; when the submission has
\* returned, an item whose first attempt succeeded was attempted exactly
\* once and an item whose first attempt failed exactly twice.
C2_AtMostTwoAttempts ==
  \A i \in Items :
    /\ attempts[i] <= 2
    /\ Returned =>
         /\ first_outcome[i] \in {"ok", "failed"}
         /\ first_outcome[i] = "ok" => attempts[i] = 1
         /\ first_outcome[i] = "failed" => attempts[i] = 2

C2_Witness ==
  /\ Returned
  /\ \E i, j \in Items :
       /\ first_outcome[i] = "ok" /\ attempts[i] = 1
       /\ first_outcome[j] = "failed" /\ attempts[j] = 2

\* C3: an error raised in the pipeline of an item never leaves
\* process_single_file: the task returns a result with success = false that
\* carries the message of the error; the submission still returns its report,
\* and an item is reported successful iff its own latest attempt had no error.
C3_FailureIsolation ==
  /\ \A i \in Items :
       results[i] # NoResult =>
         /\ results[i].kind = "dict"
         /\ results[i].success = (raised[i] = << >>)
         /\ ~results[i].success => results[i].error = raised[i]
  /\ Returned =>
       /\ response.status = 200
       /\ \A i \in Items :
            (EntriesOf(response.successful_files, i) # {}) <=> (raised[i] = << >>)

C3_Witness ==
  /\ phase = "pass1"
  /\ \E i, j \in Items :
       /\ results[i] # NoResult
       /\ ~results[i].success
       /\ results[i].error = <<"Database error">>
       /\ task[j] = "finished"
       /\ results[j] # NoResult
       /\ results[j].success
       /\ i < j

\* C4: in the report every submitted file appears in exactly one of
\* successful_files and failed_files, total_files = successful_count +
\* failed_count, and the counts are the lengths of the lists.
C4_ReportPartition ==
  Returned =>
    /\ \A i \in Items :
         Cardinality(EntriesOf(response.successful_files, i))
           + Cardinality(EntriesOf(response.failed_files, i)) = 1
    /\ response.total_files = Len(files)
    /\ response.total_files = response.successful_count + response.failed_count
    /\ response.successful_count = Len(response.successful_files)
    /\ response.failed_count = Len(response.failed_files)

C4_Witness ==
  /\ Returned
  /\ response.failed_count >= 1
  /\ \E i, j \in Items :
       /\ first_outcome[i] = "ok"
       /\ first_outcome[j] = "failed"
       /\ EntriesOf(response.successful_files, j) # {}

\* C5: an item that fails its first attempt and succeeds on the retry is in
\* the succeeded list of the report with an attempt count of 2.
C5_RetriedSuccessTagged ==
  Returned =>
    \A i \in Items :
      (first_outcome[i] = "failed" /\ raised[i] = << >>) =>
        \E k \in EntriesOf(response.successful_files, i) :
          LET e == response.successful_files[k] IN
            \/ "attempts" \in DOMAIN e /\ e.attempts = 2
            \/ "attempt" \in DOMAIN e /\ e.attempt = 2

\* C6: an item that fails both attempts stays in failed_files with attempt
\* = 2 and the error "Retry failed: " followed by the error of its own retry;
\* every entry of failed_files in the report is such an entry.
C6_FailedTwice ==
  Returned =>
    /\ \A k \in 1..Len(response.failed_files) :
         LET e == response.failed_files[k] IN
           /\ e.attempt = 2
           /\ first_outcome[e.file] = "failed"
           /\ raised[e.file] # << >>
           /\ e.error = <<"Retry failed">> \o raised[e.file]
    /\ \A i \in Items :
         (first_outcome[i] = "failed" /\ raised[i] # << >>)
           => EntriesOf(response.failed_files, i) # {}

C6_Witness ==
  /\ Returned
  /\ Len(response.failed_files) = 1
  /\ response.failed_files[1].file = 2
  /\ response.failed_files[1].error = <<"Retry failed", "Database error">>
  /\ first_outcome[1] = "failed"

\* the stages of one attempt in the order of the code
StageOrder == <<"transcribe", "extract_fields", "save_transcript", "evaluate_qa", "save_qa">>

PipelineStages == {StageOrder[k] : k \in 1..Len(StageOrder)}

Completed(i, stage) == \E k \in 1..Len(stages[i]) : stages[i][k] = stage

C11_SucceededItemsPersisted ==
  LET Persisted(e) ==
        /\ e.transcript_id \in 1..Len(transcripts)
        /\ transcripts[e.transcript_id].file = e.file
        /\ e.qa_evaluation_id \in 1..Len(qa_evaluations)
        /\ qa_evaluations[e.qa_evaluation_id].transcript_id = e.transcript_id
        /\ qa_evaluations[e.qa_evaluation_id].total_score = e.total_score
  IN /\ \A i \in Items :
          (results[i] # NoResult /\ results[i].success) => Persisted(results[i])
     /\ \A k \in 1..Len(successful) : Persisted(successful[k])
     /\ Returned =>
          \A k \in 1..Len(response.successful_files) :
            Persisted(response.successful_files[k])

C11_Witness ==
  /\ Returned
  /\ response.successful_count >= 1
  /\ response.failed_count >= 1
  /\ Len(transcripts) > Len(qa_evaluations)
  /\ response.successful_files[1].qa_evaluation_id = Len(qa_evaluations)

\* C17: a submission with an empty file list is answered 400 "No files
\* provided" and processes nothing; a submission with at least one file is
\* answered with a success report.
C17_EmptyListIs400 ==
  phase = "returned" =>
    IF files = << >>
    THEN /\ response.status = 400
         /\ response.detail = <<"No files provided">>
         /\ transcripts = << >>
    ELSE /\ response.status = 200
         /\ response.success

\* the sleeps of a transcribe_audio_file whose calls all fail
BackoffSchedule == <<1, 2>>

IsTranscriptionFailure(message) ==
  Len(message) > 0 /\ message[1] = "Transcription failed after"

\* C18: one transcribe_audio_file calls the upstream at most 3 times; it
\* sleeps 1 after the first failed call and 2 after the second and never
\* after the third; a successful call is its last call; after the third
\* failure it raises the terminal error that carries the error of the third
\* call.
C18_InnerRetryBackoff ==
  \A i \in Items :
    /\ tr_calls[i] <= 3
    /\ IsPrefix(tr_sleeps[i], BackoffSchedule)
    /\ task[i] = "transcribe" =>
         /\ tr_calls[i] <= 2
         /\ Len(tr_sleeps[i]) = tr_calls[i]
    /\ Completed(i, "transcribe") =>
         /\ tr_calls[i] >= 1
         /\ Len(tr_sleeps[i]) = tr_calls[i] - 1
    /\ IsTranscriptionFailure(raised[i]) =>
         /\ tr_calls[i] = 3
         /\ tr_sleeps[i] = BackoffSchedule
         /\ raised[i] = <<"Transcription failed after", "3", "attempts",
                          "Error transcribing audio from gemini", "3">>
         /\ results[i] # NoResult => ~results[i].success

C18_Witness ==
  \E i \in Items :
    /\ IsTranscriptionFailure(raised[i])
    /\ tr_calls[i] = 3
    /\ tr_sleeps[i] = <<1, 2>>
    /\ attempts[i] = 1

RECURSIVE SumSeq(_)
SumSeq(q) == IF q = << >> THEN 0 ELSE Head(q) + SumSeq(Tail(q))

\* C19: an item whose inner transcription attempts all fail is failed in the
\* first pass and attempted once more with a fresh budget of 3 calls; no
\* item causes more than 3 upstream transcription calls per pipeline attempt
\* nor more than 6 in the submission, and N items cause at most 6N.
C19_RetryLayersCompose ==
  /\ \A i \in Items :
       /\ upstream_calls[i] <= 3 * attempts[i]
       /\ upstream_calls[i] <= 6
       /\ (phase = "pass1" /\ task[i] = "finished" /\ IsTranscriptionFailure(raised[i]))
            => first_outcome[i] = "failed"
       /\ (Returned /\ first_outcome[i] = "failed") => attempts[i] = 2
       /\ attempts[i] = 2 => tr_calls[i] <= upstream_calls[i]
  /\ SumSeq(upstream_calls) <= 6 * Len(files)

C19_Witness ==
  /\ Returned
  /\ \E i \in Items :
       /\ upstream_calls[i] = 6
       /\ attempts[i] = 2
       /\ tr_calls[i] = 3
       /\ EntriesOf(response.failed_files, i) # {}

\* C20: no second attempt of an item starts before the first attempt of
\* every item has completed, and the items gathered in the retry pass are
\* exactly the items whose first attempt failed.
C20_RetryBarrier ==
  /\ \A i \in Items :
       (attempts[i] >= 2 \/ (phase = "pass2" /\ task[i] # "none")) =>
         \A j \in Items : first_outcome[j] \in {"ok", "failed"} /\ attempts[j] >= 1
  /\ phase = "pass1" => \A i \in Items : attempts[i] <= 1
  /\ phase = "pass2" =>
       {i \in Items : task[i] # "none"} = {i \in Items : first_outcome[i] = "failed"}
  /\ (phase = "pass2" \/ Returned) =>
       /\ {failed_files[k] : k \in 1..Len(failed_files)}
            = {i \in Items : first_outcome[i] = "failed"}
       /\ {i \in Items : attempts[i] >= 2} \subseteq {i \in Items : first_outcome[i] = "failed"}
  /\ Returned =>
       {i \in Items : attempts[i] = 2} = {i \in Items : first_outcome[i] = "failed"}

C20_Witness ==
  /\ phase = "pass2"
  /\ \E i, j \in Items :
       /\ first_outcome[j] = "ok"
       /\ task[j] = "none"
       /\ first_outcome[i] = "failed"
       /\ attempts[i] = 2
       /\ i \in InFlight

\* the positions of a task at an external call: the read of the upload, the
\* LLM requests and the database writes
ExternalCalls ==
  {"read", "transcribe", "extract_fields", "save_transcript", "evaluate_qa", "save_qa"}

\* C21: the task of an item gives up the event loop at each of its external
\* I/O calls, so that the other admitted items can run while it waits.
C21_SuspendsAtExternalCalls ==
  \A i \in Items : task[i] \in ExternalCalls => running # i

\* C24: no attempt of an item ends with the validation error of the rubric
\* construction: the caller goes on with the fallback evaluation.
C24_FallbackOnValidationError ==
  \A i \in Items :
    /\ raised[i] # <<"Error evaluating QA", "validation error">>
    /\ (results[i] # NoResult /\ ~results[i].success)
         => results[i].error # <<"Error evaluating QA", "validation error">>

\* C25: the retry attempt of an item reads from the upload the bytes its
\* first attempt read.
C25_RetryReadsSameBytes ==
  \A i \in Items :
    \A k \in 1..Len(contents[i]) : contents[i][k] = contents[i][1]

\* the transcript rows written for file i
TranscriptsOf(i) == {k \in 1..Len(transcripts) : transcripts[k].file = i}

\* C26: when the submission has returned, the number of transcript rows
\* equals the number of QA rows and equals successful_count; an item in
\* failed_files has written no row and no item has written more than one
\* transcript row.
C26_NoOrphanNoDuplicate ==
  Returned =>
    /\ Len(transcripts) = Len(qa_evaluations)
    /\ Len(qa_evaluations) = response.successful_count
    /\ \A i \in Items :
         /\ Cardinality(TranscriptsOf(i)) <= 1
         /\ EntriesOf(response.failed_files, i) # {} => TranscriptsOf(i) = {}

\* C27: after every completed attempt, successful or failed, the temporary
\* file and directory of the attempt are removed; none is left when the
\* submission returns.
C27_TempFilesRemoved ==
  /\ \A i \in Items : task[i] = "finished" => item_tempdirs[i] = 0
  /\ Returned => tempdirs = 0

\* C28: a submission of at least one file eventually returns its report
\* (under SpecLive, where no call takes forever): the slots held are the
\* slots of the items in flight, since every task releases its slot when it
\* returns a result, successful or failed; every waiting item is eventually
\* admitted; no pass stops before the report.
C28_EventuallyReturns ==
  /\ [](phase \in {"pass1", "pass2"} => sem = ConcurrencyLimit - Cardinality(InFlight))
  /\ (phase = "pass1") ~> (phase = "returned" /\ response.status = 200)
  /\ (\E i \in Items : task[i] = "waiting") ~> (\A i \in Items : task[i] # "waiting")

C28_Witness ==
  /\ Returned
  /\ response.status = 200
  /\ Len(files) = 4
  /\ sem = 3
  /\ \E i \in Items : attempts[i] = 2

\* the allowed extensions, and the pairs of an upper-case letter and its
\* lower-case letter
AudioExtensions ==
  { <<".", "w", "a", "v">>, <<".", "m", "p", "3">>, <<".", "m", "4", "a">>,
    <<".", "f", "l", "a", "c">> }

CasePairs == {<<"W", "w">>, <<"A", "a">>, <<"V", "v">>}

EqualIgnoringCase(a, b) ==
  /\ Len(a) = Len(b)
  /\ \A k \in 1..Len(a) : a[k] = b[k] \/ <<a[k], b[k]>> \in CasePairs

HasAudioExtension(filename) ==
  \E e \in AudioExtensions : EqualIgnoringCase(filename.ext, e)

LacksBrace(text) ==
  \/ \A k \in 1..Len(text) : text[k] # "{"
  \/ \A k \in 1..Len(text) : text[k] # "}"

\* the candidate between the first "{" and the last "}" is a JSON document
CandidateIsJson(text) ==
  /\ ~LacksBrace(text)
  /\ JsonLoads(Slice(text, Find(text, "{"), RFind(text, "}") + 1))

\* the fixed field keys of the extraction schema
ListFields ==
  {"agent_names", "patient_names", "test_centers", "tests_mentioned",
   "doctors_mentioned", "contact_info", "appointment_dates", "departments"}

FieldKeys == ListFields \cup {"sentiment"}

\* C13: extract_fields_from_transcript fails with an error, and returns no
\* mapping, when the LLM text has no "{" or no "}" or when the candidate is
\* not valid JSON.
C13_ExtractionFailsWithoutJson ==
  (fxResult.via = "extract" /\ fxResult.upstream_ok /\ ~CandidateIsJson(fxText))
    => ~fxResult.ok

\* C15: every mapping the field extraction normalizer returns has the 8
\* fixed field keys and sentiment; a key the LLM object omitted is the empty
\* sequence and a key it supplied is unchanged; for a text that carries no
\* object every key is the empty sequence.
C15_AllFieldKeysPresent ==
  (fxResult.via \in {"parse", "extract"} /\ fxResult.ok) =>
    LET m == fxResult.extracted_data IN
      /\ FieldKeys \subseteq DOMAIN m
      /\ \A k \in FieldKeys :
           m[k] = IF CandidateIsJson(fxText) /\ k \in DOMAIN fxObj
                  THEN fxObj[k] ELSE [list |-> TRUE, items |-> << >>]

C15_Witness ==
  /\ fxResult.via = "parse"
  /\ fxText = <<"x", "{", "}">>
  /\ DOMAIN fxObj = FieldKeys \ {"departments"}
  /\ fxResult.extracted_data["departments"] = [list |-> TRUE, items |-> << >>]
  /\ fxResult.extracted_data["agent_names"] = [list |-> TRUE, items |-> <<"a">>]

\* C16: every list-typed field of a mapping the field extraction normalizer
\* returns is a sequence; a field the LLM gave as a bare scalar is returned
\* as the sequence of that one scalar.
C16_ScalarCoerced ==
  (fxResult.via \in {"parse", "extract"} /\ fxResult.ok) =>
    LET m == fxResult.extracted_data IN
      \A k \in ListFields :
        /\ k \in DOMAIN m
        /\ m[k].list
        /\ (CandidateIsJson(fxText) /\ k \in DOMAIN fxObj /\ ~fxObj[k].list)
             => m[k] = [list |-> TRUE, items |-> fxObj[k].items]

(***************************************************************************)
(* Properties of the rubric and of the QA normalizer (SpecQA).             *)
(***************************************************************************)
\* the table of legal scores of the specification
RubricTable ==
  [greet_protocol |-> {0, 1, 3, 4}, offer_help |-> {0, 2},
   confirm_info |-> {0, 1, 3}, confirm_location |-> {0, 4},
   confirm_modality |-> {0, 2, 4}, complete_details |-> {0, 2},
   info_within_1min |-> {0, 2},
   proper_hold_script |-> {0, 4}, extend_hold_disconnect |-> {0, 4},
   reconnect_after_60s |-> {0, 4},
   no_interrupt |-> {0, 2}, attentive |-> {0, 1, 3}, no_jargon |-> {0, 2},
   no_repetition |-> {0, 1, 2}, polite_courteous |-> {1, 3, 4},
   tone_speed |-> {1, 3, 5},
   assure_callback |-> {0, 3, 5},
   ask_further_help |-> {0, 3}, follow_closing |-> {0, 3}, accurate_info |-> {0, 4},
   clear_confident |-> {1, 3, 4},
   accurate_record |-> 0..10, proper_disposition |-> 0..10, spell_check |-> 0..10]

TableParams == DOMAIN RubricTable

AllPresent(raw) == \A p \in TableParams : HasScore(raw, p)

AllInTable(raw) == \A p \in TableParams : HasScore(raw, p) /\ raw.scores[p] \in RubricTable[p]

TableSum(raw) == SumOver(raw.scores, TableParams)

\* C7: every evaluation that is constructed has total_score equal to the sum
\* of its 24 parameter scores, between 0 and 100; construction fails
\* whenever the supplied total differs from that sum.
C7_TotalIsSum ==
  qaResult.via = "construct" =>
    /\ qaResult.ok =>
         /\ AllPresent(qaRaw)
         /\ qaRaw.has_total
         /\ qaResult.total_score = qaRaw.total
         /\ qaResult.total_score = TableSum(qaRaw)
         /\ qaResult.total_score \in 0..100
    /\ (AllPresent(qaRaw) /\ qaRaw.has_total /\ qaRaw.total # TableSum(qaRaw))
         => ~qaResult.ok

C7_Witness ==
  /\ qaResult.via = "construct"
  /\ qaResult.ok
  /\ qaEdited
  /\ qaResult.total_score = 98

\* C8: construction succeeds only if every one of the 24 parameters has a
\* score of its legal set in the table; a score outside the set fails the
\* whole construction with an error that names the parameter, and no
\* evaluation is returned; legal scores with the right total succeed.
C8_LegalScoresOnly ==
  qaResult.via = "construct" =>
    /\ qaResult.ok => AllInTable(qaRaw)
    /\ \A p \in TableParams :
         (HasScore(qaRaw, p) /\ qaRaw.scores[p] \notin RubricTable[p])
           => (~qaResult.ok /\ p \in qaResult.errors)
    /\ (AllInTable(qaRaw) /\ qaRaw.has_total /\ qaRaw.total = TableSum(qaRaw))
         => qaResult.ok

C8_Witness ==
  /\ qaResult.via = "construct"
  /\ HasScore(qaRaw, "tone_speed")
  /\ qaRaw.scores["tone_speed"] = 2
  /\ ~qaResult.ok
  /\ "tone_speed" \in qaResult.errors
  /\ qaRaw.has_total
  /\ qaRaw.total = TableSum(qaRaw)

\* C9: the outcome of evaluate_transcript_qa, and the total_score of the
\* evaluation it returns, are the same for every total_score the response
\* supplies (none, too low, too high or right): the returned total is the
\* recomputed sum.
C9_TotalNotTrusted ==
  qaResult.via = "evaluate" =>
    /\ \A t \in SuppliedTotals(qaRaw) \cup {qaRaw.total} :
         LET supplied == [qaRaw EXCEPT !.has_total = TRUE, !.total = t]
             omitted == [qaRaw EXCEPT !.has_total = FALSE, !.total = 0]
             a == EvaluateTranscriptQA(qaResult.upstream_ok, qaText, supplied)
             b == EvaluateTranscriptQA(qaResult.upstream_ok, qaText, omitted)
         IN /\ a = b
            /\ qaResult.ok = a.ok
            /\ qaResult.total_score = a.total_score
    /\ qaResult.ok => qaResult.total_score = TableSum(qaRaw)

C9_Witness ==
  /\ qaResult.via = "evaluate"
  /\ qaResult.ok
  /\ qaRaw.has_total
  /\ qaRaw.total = 101
  /\ qaResult.total_score = 100

\* C12: the QA normalizer fails with "No JSON found in response" whenever
\* the LLM text has no "{" or no "}", and evaluate_transcript_qa then fails
\* with that error and returns no evaluation.
C12_NoJsonFound ==
  /\ LacksBrace(qaText) =>
       /\ ~ParseQAResponse(qaText, qaRaw).ok
       /\ ParseQAResponse(qaText, qaRaw).error
            = <<"Failed to parse QA response", "No JSON found in response">>
  /\ (qaResult.via = "evaluate" /\ qaResult.upstream_ok /\ LacksBrace(qaText)) =>
       /\ ~qaResult.ok
       /\ qaResult.error = <<"Error evaluating QA", "Failed to parse QA response",
                             "No JSON found in response">>

C12_Witness ==
  /\ qaResult.via = "evaluate"
  /\ qaResult.upstream_ok
  /\ qaText = <<"x", "}">>
  /\ ~qaResult.ok

\* C14: for a text with a parseable object that lacks a category key the QA
\* normalizer does not raise: it returns the mapping with an empty mapping
\* for each missing category, and the failure comes from the rubric
\* construction.
C14_MissingSectionDefaulted ==
  (qaResult.via = "evaluate" /\ qaResult.upstream_ok /\ CandidateIsJson(qaText)
     /\ qaRaw.sections # SectionSet) =>
    /\ ParseQAResponse(qaText, qaRaw).ok
    /\ ParseQAResponse(qaText, qaRaw).qa_data.sections = SectionSet
    /\ ~qaResult.ok
    /\ qaResult.error = <<"Error evaluating QA", "validation error">>

\* C22: for legal scores of all 24 parameters the total of
\* _calculate_total_score is the sum over the table and the total the
\* validator recomputes, so evaluate_transcript_qa does not reject the
\* evaluation for its total; computing the total again on the mapping that
\* carries it gives the same value.
C22_TotalsAgree ==
  AllInTable(qaRaw) =>
    LET total == CalculateTotalScore(qaRaw)
        with_total == [qaRaw EXCEPT !.has_total = TRUE, !.total = total]
    IN /\ total = TableSum(qaRaw)
       /\ ~ValidateTotalRaises(total, qaRaw)
       /\ CalculateTotalScore(with_total) = total
       /\ (qaResult.via = "evaluate" /\ qaResult.upstream_ok /\ CandidateIsJson(qaText)) =>
            /\ qaResult.ok
            /\ qaResult.total_score = TableSum(qaRaw)

C22_Witness ==
  /\ qaResult.via = "evaluate"
  /\ qaResult.ok
  /\ qaEdited
  /\ ~qaRaw.has_total
  /\ AllInTable(qaRaw)
  /\ qaResult.total_score = 4

\* C23: the fallback evaluation has a legal score for each of its 24
\* parameters and a total_score equal to their sum, and QAEvaluation
\* accepts it.
C23_FallbackIsValid ==
  qaResult.via = "fallback" =>
    /\ AllInTable(qaRaw)
    /\ qaRaw.total = TableSum(qaRaw)
    /\ qaResult.ok

\* the maxima of the categories
CategoryMaxima ==
  [greeting |-> 6, information |-> 15, hold_procedure |-> 12, quality_check |-> 18,
   unsure_situation |-> 5, closing_script |-> 10, sound_quality |-> 4,
   record_handling |-> 30]

\* C29: the category maxima are 6, 15, 12, 18, 5, 10, 4, 30 and add up to
\* 100; polite_courteous, tone_speed and clear_confident cannot be 0; the
\* sum of 24 legal scores lies in 3..100, so an accepted total never exceeds
\* 100 and the all-zero evaluation is not constructed.
C29_TotalRange ==
  /\ \A s \in SectionSet : SumOver(MaxScores, ParamsOf(s)) = CategoryMaxima[s]
  /\ SumOver(CategoryMaxima, SectionSet) = 100
  /\ \A p \in {"polite_courteous", "tone_speed", "clear_confident"} : 0 \notin LegalScores(p)
  /\ AllInTable(qaRaw) => TableSum(qaRaw) \in 3..100
  /\ (qaResult.via \in {"construct", "evaluate"} /\ qaResult.ok)
       => qaResult.total_score \in 3..100
  /\ (qaResult.via = "construct" /\ AllPresent(qaRaw)
        /\ \A p \in TableParams : qaRaw.scores[p] = 0) => ~qaResult.ok

C29_Witness ==
  /\ qaResult.via = "construct"
  /\ ~qaEdited
  /\ AllPresent(qaRaw)
  /\ \A p \in TableParams : qaRaw.scores[p] = 0
  /\ qaRaw.has_total
  /\ qaRaw.total = 0
  /\ ~qaResult.ok

====
